---- MODULE Spec2Model ----
(***************************************************************************)
(* bitcounts: count the 1-bits of every regular file under a root.         *)
(*                                                                         *)
(* The model follows the bitcounter of package main: countFile (the        *)
(* chunked read loop with Kernighan's bit count), count (the fs.WalkDir    *)
(* callback with its error isolation) and main.  The collaborators of the  *)
(* standard library (fs.WalkDir, os.Open, bufio.Reader.Read) are the       *)
(* environment: each of their results is a nondeterministic choice.        *)
(***************************************************************************)
EXTENDS Integers, Sequences, FiniteSets

\* Bounds of the model.
BUFF_SIZE == 2          \* len(bc.inbuf); 1000000 in the program, scaled down
MaxEntries == 3         \* callbacks one traversal makes at most
MaxReads == 3           \* reads one stream answers at most

\* A stream delivers at most one byte more than the buffer holds, so that a
\* file longer than the scratch buffer occurs (TestLargeFile: BUFF_SIZE+1000).
MaxFileLen == BUFF_SIZE + 1

\* Byte values the streams of a scan deliver: 0x00 and 0xFF.
Bytes == {0, 255}

AllBytes == 0..255

VARIABLES
  pc,          \* position of the program
  bytesRead,   \* bc.bytesRead
  ones,        \* bc.ones
  errs,        \* bc.errs
  inbuf,       \* bc.inbuf, reused by every read of every file
  bread,       \* countFile: bread
  rerr,        \* countFile: err ("nil", "EOF", "ERR")
  idx,         \* countFile: position of the range loop in inbuf[:bread]
  cfRet,       \* what countFile returned
  cbRet,       \* what the WalkDir callback returned
  countRet,    \* what count returned
  cur,         \* arguments (d, err) of the running callback
  nEntries,    \* number of callbacks the traversal makes when never aborted
  delivered,   \* number of callbacks started so far; the running one's path
  openFiles,   \* streams that are open
  stdout,      \* progress lines printed by count
  outcome,     \* how main ended: "running", "panic", or the report
  kb, kc,      \* Kernighan loop: b and c
  \* history of what the collaborators did, for the properties
  hRootFailed, hRegulars, hOpenCalls, hOpened, hFailures,
  hFileClean, hFileErrd, hFileFailed, hReads,
  hBytes, hOnes, hBytes0, hOnes0, hErrs0, hKb0, hWrapped

vars == << pc, bytesRead, ones, errs, inbuf, bread, rerr, idx, cfRet, cbRet,
           countRet, cur, nEntries, delivered, openFiles, stdout, outcome,
           kb, kc, hRootFailed, hRegulars, hOpenCalls, hOpened, hFailures,
           hFileClean, hFileErrd, hFileFailed, hReads,
           hBytes, hOnes, hBytes0, hOnes0, hErrs0, hKb0, hWrapped >>

bcVars == << bytesRead, ones, errs, inbuf >>
cfVars == << bread, rerr, idx, cfRet >>
walkVars == << cur, nEntries, delivered >>
kernVars == << kb, kc, hKb0, hWrapped >>
fileHist == << hFileClean, hFileErrd, hFileFailed, hReads, hBytes, hOnes >>
entryHist == << hBytes0, hOnes0, hErrs0 >>

----
\* Bit arithmetic on bytes (uint8).

RECURSIVE BitAnd(_, _, _)
BitAnd(x, y, w) ==
  IF w = 0 THEN 0
  ELSE (x % 2) * (y % 2) + 2 * BitAnd(x \div 2, y \div 2, w - 1)

\* b - 1 on a uint8: wraps to 255 at b = 0.
Sub1(b) == (b + 255) % 256

ClearLowestShift(b) == b \div 2

\* b &= b - 1
ClearLowest(b) == BitAnd(b, Sub1(b), 8)

\* for ; b != 0; c++ { b &= b - 1 }
RECURSIVE KernighanCount(_)
KernighanCount(b) == IF b = 0 THEN 0 ELSE 1 + KernighanCount(ClearLowest(b))

\* Reference population count: the sum of the binary digits.
RECURSIVE PopCount(_)
PopCount(b) == IF b = 0 THEN 0 ELSE (b % 2) + PopCount(b \div 2)

RECURSIVE PopCountSeq(_)
PopCountSeq(s) == IF s = << >> THEN 0 ELSE PopCount(Head(s)) + PopCountSeq(Tail(s))

\* All byte sequences of length 0..n over Bytes.
Chunks(n) == UNION { [1..k -> Bytes] : k \in 0..n }

Nil == "nil"
EOF == "EOF"
ERR == "ERR"

\* The entries of bc.errs: the message's fixed text and the path it names.
ErrEntry(kind, path) == [kind |-> kind, path |-> path]

----
NoReport == [kind |-> "running", errors |-> 0, total |-> 0, ones |-> 0, zeroes |-> 0]

\* bc := &bitcounter{inbuf: make([]byte, BUFF_SIZE)}, nothing started yet.
ScanInit ==
  /\ bytesRead = 0 /\ ones = 0 /\ errs = << >>
  /\ inbuf = [i \in 1..BUFF_SIZE |-> 0]
  /\ bread = 0 /\ rerr = Nil /\ idx = 1 /\ cfRet = Nil
  /\ cbRet = Nil /\ countRet = Nil
  /\ cur = [d |-> "nil", err |-> FALSE]
  /\ nEntries = 0 /\ delivered = 0
  /\ openFiles = {} /\ stdout = 0 /\ outcome = NoReport
  /\ kc = 0 /\ hWrapped = FALSE
  /\ hRootFailed = FALSE /\ hRegulars = {} /\ hOpenCalls = << >>
  /\ hOpened = {}
  /\ hFailures = << >>
  /\ hFileClean = << >> /\ hFileErrd = 0 /\ hFileFailed = FALSE /\ hReads = 0
  /\ hBytes = 0 /\ hOnes = 0 /\ hBytes0 = 0 /\ hOnes0 = 0 /\ hErrs0 = 0

Init ==
  /\ ScanInit
  /\ pc = "main"
  /\ kb = 0 /\ hKb0 = 0

----
\* fs.WalkDir, the traversal collaborator.

\* The failure an entry is delivered with, as the traversal knows it.
DeliveryFailure(e, path) ==
  IF e.err THEN << ErrEntry("walk error", path) >>
  ELSE IF e.d = "nil" THEN << ErrEntry("nil fs.DirEntry", path) >>
  ELSE << >>

\* WalkDir invokes the callback on entry e.
StartCallback(e) ==
  /\ delivered' = delivered + 1
  /\ cur' = e
  /\ hFailures' = hFailures \o DeliveryFailure(e, delivered + 1)
  /\ hRegulars' = IF e.d = "regular" /\ ~e.err
                  THEN hRegulars \cup {delivered + 1} ELSE hRegulars
  /\ hFileClean' = << >> /\ hFileErrd' = 0 /\ hFileFailed' = FALSE
  /\ hReads' = 0
  /\ hBytes0' = bytesRead /\ hOnes0' = ones /\ hErrs0' = Len(errs)
  /\ pc' = "cb"

\* main calls bc.count("."); WalkDir's Stat of the root fails, and the
\* callback is invoked once with (root, nil, err).
WalkStatFails ==
  /\ pc = "main"
  /\ nEntries' = 1
  /\ hRootFailed' = TRUE
  /\ StartCallback([d |-> "nil", err |-> TRUE])
  /\ UNCHANGED << bcVars, cfVars, cbRet, countRet, openFiles, stdout, outcome,
                  kernVars, hOpenCalls, hOpened, hBytes, hOnes >>

\* The Stat succeeds: the root is a directory with up to MaxEntries - 1
\* further callbacks below it, or a single regular file.
WalkStatOK ==
  /\ pc = "main"
  /\ \E k \in {"dir", "regular"} :
       /\ nEntries' \in (IF k = "dir" THEN 1..MaxEntries ELSE {1})
       /\ StartCallback([d |-> k, err |-> FALSE])
  /\ UNCHANGED << bcVars, cfVars, cbRet, countRet, openFiles, stdout, outcome,
                  kernVars, hRootFailed, hOpenCalls, hOpened, hBytes, hOnes >>

\* What walkDir may deliver after the callback for `prev`: an entry of a
\* directory listing, an absent descriptor, or (after a directory) the second
\* call that reports the directory's ReadDir error.
NextEntries(prev) ==
  { [d |-> k, err |-> FALSE] : k \in {"dir", "regular", "nil"} }
    \cup (IF prev.d = "dir" /\ ~prev.err
          THEN { [d |-> "dir", err |-> TRUE] } ELSE {})

WalkNext ==
  /\ pc = "walk"
  /\ delivered < nEntries
  /\ \E e \in NextEntries(cur) : StartCallback(e)
  /\ UNCHANGED << bcVars, cfVars, cbRet, countRet, nEntries, openFiles, stdout,
                  outcome, kernVars, hRootFailed, hOpenCalls, hOpened, hBytes, hOnes >>

\* WalkDir takes the callback's result: an error ends the walk and is
\* returned by WalkDir, nil goes on with the next entry.  The frames of the
\* callback and of countFile are gone, and with them their locals.
WalkResume ==
  /\ pc = "cbret"
  /\ IF cbRet # Nil
     THEN countRet' = cbRet /\ pc' = "count_ret"
     ELSE countRet' = countRet /\ pc' = "walk"
  /\ bread' = 0 /\ rerr' = Nil /\ idx' = 1 /\ cfRet' = Nil
  /\ hFileClean' = << >> /\ hFileErrd' = 0 /\ hFileFailed' = FALSE
  /\ hReads' = 0
  /\ hBytes0' = 0 /\ hOnes0' = 0 /\ hErrs0' = 0
  /\ UNCHANGED << bcVars, cbRet, walkVars, openFiles, stdout, outcome,
                  kernVars, hRootFailed, hRegulars, hOpenCalls, hOpened, hFailures,
                  hBytes, hOnes >>

\* Every entry was delivered: WalkDir returns nil, and count returns it.
WalkDone ==
  /\ pc = "walk"
  /\ delivered = nEntries
  /\ countRet' = Nil
  /\ pc' = "count_ret"
  /\ UNCHANGED << bcVars, cfVars, cbRet, walkVars, openFiles, stdout, outcome,
                  kernVars, hRootFailed, hRegulars, hOpenCalls, hOpened, hFailures,
                  fileHist, entryHist >>

----
\* The callback of count.

cbFrame == << bytesRead, ones, inbuf, cfVars, countRet, walkVars, outcome,
              kernVars, hRootFailed, hRegulars, fileHist, entryHist >>

CbWalkErrPropagate ==
  /\ pc = "cb"
  /\ cur.err
  /\ cbRet' = ERR
  /\ pc' = "cbret"
  /\ UNCHANGED << cbFrame, errs, openFiles, stdout, hOpenCalls, hOpened, hFailures >>

\* if err != nil { append "walk error for ..."; return nil }
CbWalkErr ==
  /\ pc = "cb"
  /\ cur.err
  /\ errs' = Append(errs, ErrEntry("walk error", delivered))
  /\ cbRet' = Nil
  /\ pc' = "cbret"
  /\ UNCHANGED << cbFrame, openFiles, stdout, hOpenCalls, hOpened, hFailures >>

\* if d == nil { append "nil fs.DirEntry: ..."; return nil }
CbNilEntry ==
  /\ pc = "cb"
  /\ ~cur.err /\ cur.d = "nil"
  /\ errs' = Append(errs, ErrEntry("nil fs.DirEntry", delivered))
  /\ cbRet' = Nil
  /\ pc' = "cbret"
  /\ UNCHANGED << cbFrame, openFiles, stdout, hOpenCalls, hOpened, hFailures >>

\* d.Type().IsRegular() is false: return nil
CbSkip ==
  /\ pc = "cb"
  /\ ~cur.err /\ cur.d = "dir"
  /\ cbRet' = Nil
  /\ pc' = "cbret"
  /\ UNCHANGED << cbFrame, errs, openFiles, stdout, hOpenCalls, hOpened, hFailures >>

CbOpenFailReturnErr ==
  /\ pc = "cb"
  /\ ~cur.err /\ cur.d = "regular"
  /\ stdout' = stdout + 1
  /\ hOpenCalls' = Append(hOpenCalls, delivered)
  /\ hFailures' = Append(hFailures, ErrEntry("open", delivered))
  /\ cbRet' = ERR
  /\ pc' = "cbret"
  /\ UNCHANGED << cbFrame, errs, openFiles, hOpened >>

CbOpenFailSilent ==
  /\ pc = "cb"
  /\ ~cur.err /\ cur.d = "regular"
  /\ stdout' = stdout + 1
  /\ hOpenCalls' = Append(hOpenCalls, delivered)
  /\ hFailures' = Append(hFailures, ErrEntry("open", delivered))
  /\ cbRet' = Nil
  /\ pc' = "cbret"
  /\ UNCHANGED << cbFrame, errs, openFiles, hOpened >>

\* A regular file whose os.Open fails: append err.Error(); return nil
CbOpenFail ==
  /\ pc = "cb"
  /\ ~cur.err /\ cur.d = "regular"
  /\ stdout' = stdout + 1
  /\ hOpenCalls' = Append(hOpenCalls, delivered)
  /\ hFailures' = Append(hFailures, ErrEntry("open", delivered))
  /\ errs' = Append(errs, ErrEntry("open", delivered))
  /\ cbRet' = Nil
  /\ pc' = "cbret"
  /\ UNCHANGED << cbFrame, openFiles, hOpened >>

\* A regular file whose os.Open succeeds: defer in.Close(); countFile(in)
\* starts with reader := bufio.NewReader(infile), err = nil, bread = 0.
CbOpenOK ==
  /\ pc = "cb"
  /\ ~cur.err /\ cur.d = "regular"
  /\ stdout' = stdout + 1
  /\ hOpenCalls' = Append(hOpenCalls, delivered)
  /\ openFiles' = openFiles \cup {delivered}
  /\ hOpened' = hOpened \cup {delivered}
  /\ bread' = 0 /\ rerr' = Nil
  /\ pc' = "cf_cond"
  /\ UNCHANGED << bcVars, idx, cfRet, cbRet, countRet, walkVars, outcome,
                  kernVars, hRootFailed, hRegulars, hFailures, fileHist,
                  entryHist >>

CbCountReturnIgnoreErr ==
  /\ pc = "cf_ret"
  /\ openFiles' = openFiles \ {delivered}
  /\ cbRet' = Nil
  /\ pc' = "cbret"
  /\ UNCHANGED << cbFrame, errs, stdout, hOpenCalls, hOpened, hFailures >>

CbCountReturnLeakOnError ==
  /\ pc = "cf_ret"
  /\ errs' = IF cfRet # Nil
             THEN Append(errs, ErrEntry("error counting file", delivered))
             ELSE errs
  /\ openFiles' = IF cfRet # Nil THEN openFiles ELSE openFiles \ {delivered}
  /\ cbRet' = Nil
  /\ pc' = "cbret"
  /\ UNCHANGED << cbFrame, stdout, hOpenCalls, hOpened, hFailures >>

\* countFile returned: a non-nil countErr is appended, the callback returns
\* nil and the deferred in.Close() runs.
CbCountReturn ==
  /\ pc = "cf_ret"
  /\ errs' = IF cfRet # Nil
             THEN Append(errs, ErrEntry("error counting file", delivered))
             ELSE errs
  /\ openFiles' = openFiles \ {delivered}
  /\ cbRet' = Nil
  /\ pc' = "cbret"
  /\ UNCHANGED << cbFrame, stdout, hOpenCalls, hOpened, hFailures >>

----
\* countFile.

cfFrame == << errs, cfRet, cbRet, countRet, walkVars, openFiles, stdout, outcome,
              kernVars, hRootFailed, hRegulars, hOpenCalls, hOpened, entryHist >>

RangeWholeBuffer == BUFF_SIZE

\* The bytes the range loop visits: bc.inbuf[:bread].
RangeLen == bread

\* Loop condition err != io.EOF is false: return nil.
CfLoopExit ==
  /\ pc = "cf_cond"
  /\ rerr = EOF
  /\ cfRet' = Nil
  /\ pc' = "cf_ret"
  /\ UNCHANGED << bcVars, bread, rerr, idx, cbRet, countRet, walkVars, openFiles,
                  stdout, outcome, kernVars, hRootFailed, hRegulars, hOpenCalls, hOpened,
                  hFailures, fileHist, entryHist >>

\* if err != nil { return err }
CfReturnErr ==
  /\ pc = "cf_cond"
  /\ rerr # EOF /\ rerr # Nil
  /\ cfRet' = rerr
  /\ pc' = "cf_ret"
  /\ UNCHANGED << bcVars, bread, rerr, idx, cbRet, countRet, walkVars, openFiles,
                  stdout, outcome, kernVars, hRootFailed, hRegulars, hOpenCalls, hOpened,
                  hFailures, fileHist, entryHist >>

CfBodyBeforeCheck ==
  /\ pc = "cf_cond"
  /\ rerr # EOF
  /\ idx' = 1
  /\ pc' = "cf_range"
  /\ UNCHANGED << bcVars, bread, rerr, cfFrame, hFailures, fileHist >>

\* err == nil: the body starts its range loop over the chunk.
CfBody ==
  /\ pc = "cf_cond"
  /\ rerr = Nil
  /\ idx' = 1
  /\ pc' = "cf_range"
  /\ UNCHANGED << bcVars, bread, rerr, cfFrame, hFailures, fileHist >>

\* One byte of the chunk: c := its bit count; bc.ones += c
CfByte ==
  /\ pc = "cf_range"
  /\ idx <= RangeLen
  /\ ones' = ones + KernighanCount(inbuf[idx])
  /\ idx' = idx + 1
  /\ UNCHANGED << pc, bytesRead, inbuf, bread, rerr, cfFrame, hFailures, fileHist >>

CfAddBytesCapacity ==
  /\ pc = "cf_range"
  /\ idx > RangeLen
  /\ bytesRead' = bytesRead + BUFF_SIZE
  /\ pc' = "cf_read"
  /\ UNCHANGED << ones, inbuf, bread, rerr, idx, cfFrame, hFailures, fileHist >>

\* The range loop is over: bc.bytesRead += bread
CfAddBytes ==
  /\ pc = "cf_range"
  /\ idx > RangeLen
  /\ bytesRead' = bytesRead + bread
  /\ pc' = "cf_read"
  /\ UNCHANGED << ones, inbuf, bread, rerr, idx, cfFrame, hFailures, fileHist >>

\* Post statement: bread, err = reader.Read(bc.inbuf).  A buffer of
\* BUFF_SIZE bytes is at least as large as bufio's own, so the read goes
\* straight to the file and its (n, err) comes back unchanged.  By the
\* io.Reader contract n is 0..len(inbuf) and may come with a nil error, with
\* io.EOF or with another error; an *os.File reports its errors with n = 0.
CfRead ==
  /\ pc = "cf_read"
  /\ \E data \in Chunks(BUFF_SIZE), e \in {Nil, EOF, ERR} :
       /\ Len(hFileClean) + hFileErrd + Len(data) <= MaxFileLen
       /\ hReads + 1 >= MaxReads => e # Nil
       /\ inbuf' = [i \in 1..BUFF_SIZE |->
                      IF i <= Len(data) THEN data[i] ELSE inbuf[i]]
       /\ bread' = Len(data)
       /\ rerr' = e
       /\ hReads' = hReads + 1
       /\ IF e = Nil
          THEN /\ hFileClean' = hFileClean \o data
               /\ hBytes' = hBytes + Len(data)
               /\ hOnes' = hOnes + PopCountSeq(data)
               /\ hFileErrd' = hFileErrd
          ELSE /\ hFileErrd' = hFileErrd + Len(data)
               /\ UNCHANGED << hFileClean, hBytes, hOnes >>
       /\ hFileFailed' = (hFileFailed \/ e = ERR)
       /\ hFailures' = IF e = ERR
                       THEN Append(hFailures,
                                   ErrEntry("error counting file", delivered))
                       ELSE hFailures
  /\ pc' = "cf_cond"
  /\ UNCHANGED << bytesRead, ones, idx, cfFrame >>

----
\* main.

Report == [kind |-> "report", errors |-> Len(errs), total |-> bytesRead * 8,
           ones |-> ones, zeroes |-> bytesRead * 8 - ones]

\* if err := bc.count("."); err != nil { panic(err) }; then the report.
MainAfterCount ==
  /\ pc = "count_ret"
  /\ outcome' = IF countRet # Nil
                THEN [NoReport EXCEPT !.kind = "panic"]
                ELSE Report
  /\ pc' = "exit"
  /\ UNCHANGED << bcVars, cfVars, cbRet, countRet, walkVars, openFiles, stdout,
                  kernVars, hRootFailed, hRegulars, hOpenCalls, hOpened, hFailures,
                  fileHist, entryHist >>

Next ==
  \/ WalkStatFails \/ WalkStatOK \/ WalkNext \/ WalkResume \/ WalkDone
  \/ CbWalkErr \/ CbNilEntry \/ CbSkip \/ CbOpenFail \/ CbOpenOK
  \/ CbCountReturn
  \/ CfLoopExit \/ CfReturnErr \/ CfBody \/ CfByte \/ CfAddBytes \/ CfRead
  \/ MainAfterCount

Spec == Init /\ [][Next]_vars

----
\* The bit count of one byte, step by step, for every byte value.

InitKernighan ==
  /\ ScanInit
  /\ pc = "kern"
  /\ kb \in AllBytes
  /\ hKb0 = kb

scanVars == << bytesRead, ones, errs, inbuf, bread, rerr, idx, cfRet, cbRet,
               countRet, cur, nEntries, delivered, openFiles, stdout, outcome,
               hRootFailed, hRegulars, hOpenCalls, hOpened, hFailures, hFileClean,
               hFileErrd, hFileFailed, hReads, hBytes, hOnes, hBytes0, hOnes0,
               hErrs0 >>

\* One iteration: b != 0, so b &= b - 1 and then c++.
KernStep ==
  /\ pc = "kern"
  /\ kb # 0
  /\ hWrapped' = (hWrapped \/ kb - 1 < 0)
  /\ kb' = ClearLowest(kb)
  /\ kc' = kc + 1
  /\ UNCHANGED << pc, hKb0, scanVars >>

\* b == 0: the loop ends with c.
KernExit ==
  /\ pc = "kern"
  /\ kb = 0
  /\ pc' = "kern_done"
  /\ UNCHANGED << kernVars, scanVars >>

NextKernighan == KernStep \/ KernExit

SpecKernighan == InitKernighan /\ [][NextKernighan]_vars

----
\* Properties.

FileBytes == bytesRead - hBytes0
FileOnes == ones - hOnes0
CountReturned == pc \in {"count_ret", "exit"}

\* C1: a stream that delivers the bytes B in any chunks of 0..BUFF_SIZE bytes
\* and then signals end-of-stream makes countFile return nil, having added
\* len(B) to bytesRead and the population count of B to ones.
CountFileChunkingInvariant ==
  (pc = "cf_ret" /\ rerr = EOF /\ hFileErrd = 0 /\ ~hFileFailed)
    => /\ cfRet = Nil
       /\ FileBytes = Len(hFileClean)
       /\ FileOnes = PopCountSeq(hFileClean)

\* A file longer than the buffer, read in three reads, the last one the
\* end-of-stream, with 1-bits in it.
CountFileLargeFileDone ==
  /\ pc = "cf_ret" /\ rerr = EOF /\ hFileErrd = 0
  /\ Len(hFileClean) > BUFF_SIZE
  /\ hReads = 3
  /\ FileOnes = 8 * Len(hFileClean)

\* C2: when count has returned, bytesRead is the number of bytes the streams
\* of the opened files delivered and ones their population count; an entry
\* that was not opened leaves both totals as they were.
ScanTotals ==
  /\ CountReturned => bytesRead = hBytes /\ ones = hOnes
  /\ (pc = "cbret" /\ delivered \notin hOpened)
       => bytesRead = hBytes0 /\ ones = hOnes0

\* A scan over a directory, a file that failed after delivering bytes, and an
\* entry that was not opened.
ScanTotalsPartialFile ==
  /\ pc = "exit"
  /\ delivered = 3 /\ Cardinality(hOpened) = 1
  /\ bytesRead > 0 /\ ones > 0
  /\ \E i \in 1..Len(errs) : errs[i].kind = "error counting file"

\* C3: count returns nil after the callback ran for every entry of the
\* traversal, and os.Open was called exactly once for each regular file, in
\* the order of delivery.
EveryEntryHandledOnce ==
  CountReturned
    => /\ countRet = Nil
       /\ delivered = nEntries
       /\ Len(hOpenCalls) = Cardinality(hRegulars)
       /\ { hOpenCalls[i] : i \in 1..Len(hOpenCalls) } = hRegulars
       /\ stdout = Len(hOpenCalls)

\* Every regular file failed (one at open, one in mid-read) and count returned.
AllFilesFailedDone ==
  /\ pc = "count_ret"
  /\ Cardinality(hRegulars) = 2
  /\ hOpened # hRegulars /\ hOpened # {}
  /\ Len(errs) = 2

\* C4: after a read failed, countFile reads this stream no more and returns
\* the error; what the error-free reads delivered stays in the totals; count
\* appends one entry naming the file and the callback returns nil.
ReadFailureKeepsPartial ==
  /\ hFileFailed => pc \in {"cf_cond", "cf_ret", "cbret"}
  /\ (hFileFailed /\ pc \in {"cf_ret", "cbret"})
       => /\ FileBytes = Len(hFileClean)
          /\ FileOnes = PopCountSeq(hFileClean)
  /\ (hFileFailed /\ pc = "cf_ret") => cfRet = ERR
  /\ (hFileFailed /\ pc = "cbret")
       => /\ Len(errs) = hErrs0 + 1
          /\ errs[Len(errs)] = ErrEntry("error counting file", delivered)
          /\ cbRet = Nil

\* A file failed after delivering 1-bits and further entries are to come.
ReadFailureAfterData ==
  /\ pc = "cbret" /\ hFileFailed
  /\ Len(hFileClean) > 0 /\ FileOnes > 0
  /\ delivered < nEntries

\* C5: between callbacks and after count, errs lists the failures that
\* occurred, one entry each, in their order; a root that cannot be read gives
\* one "walk error" entry and zero totals; no failure gives no entry.
ErrsMatchFailures ==
  /\ pc \in {"cbret", "walk", "count_ret", "exit"} => errs = hFailures
  /\ (CountReturned /\ hRootFailed)
       => /\ errs = << ErrEntry("walk error", 1) >>
          /\ bytesRead = 0 /\ ones = 0
  /\ hFailures = << >> => errs = << >>

\* Two failures of different kinds, the first an open failure.
TwoFailuresLogged ==
  /\ pc = "exit"
  /\ Len(errs) = 2
  /\ errs[1].kind = "open"
  /\ errs[2].kind # "open"

\* C6, as claimed: a root that cannot be read makes count return an error and
\* main panic.
RootFailureAborts ==
  (pc = "exit" /\ hRootFailed) => (countRet # Nil /\ outcome.kind = "panic")

\* C6, amended: count returns nil on every traversal, also when the root
\* cannot be read; main then prints the report (one error, no bits) and never
\* panics.
RootFailureIsReported ==
  /\ CountReturned => countRet = Nil
  /\ pc = "exit" => outcome = Report
  /\ (pc = "exit" /\ hRootFailed)
       => outcome.errors = 1 /\ outcome.total = 0 /\ outcome.ones = 0

\* main ended after a traversal whose root could not be read.
RootFailedExit ==
  pc = "exit" /\ hRootFailed

\* C7: the loop on a byte ends with c its population count, after that many
\* iterations (c counts them, at most 8), and b - 1 never wraps.
KernighanCorrect ==
  /\ kc + PopCount(kb) = PopCount(hKb0)
  /\ kc <= 8
  /\ ~hWrapped
  /\ pc = "kern_done" => kb = 0 /\ kc = PopCount(hKb0)
  /\ (pc = "kern_done" /\ hKb0 = 255) => kc = 8
  /\ (pc = "kern_done" /\ hKb0 = 0) => kc = 0
  /\ (pc = "kern_done" /\ hKb0 \in {170, 85}) => kc = 4

\* The loop ended on 0xAA.
KernighanDoneAA ==
  pc = "kern_done" /\ hKb0 = 170 /\ kc = 4

\* C8, as claimed: ones <= 8 * bytesRead at every point.
OnesBoundedEverywhere ==
  0 <= ones /\ ones <= 8 * bytesRead

\* C8, amended: ones <= 8 * bytesRead holds wherever countFile is not inside
\* the range loop over a chunk; inside it, ones is ahead of bytesRead by the
\* bytes of the chunk already counted.
OnesBoundedAtChunkBoundaries ==
  /\ 0 <= ones
  /\ pc # "cf_range" => ones <= 8 * bytesRead
  /\ pc = "cf_range" => ones <= 8 * (bytesRead + idx - 1)

\* In the range loop, with ones above 8 * bytesRead.
OnesAheadInsideChunk ==
  pc = "cf_range" /\ ones > 8 * bytesRead

\* C9: at most one stream is open, the running callback's; none is open when
\* a callback starts, between callbacks or after count.
StreamsClosed ==
  /\ Cardinality(openFiles) <= 1
  /\ openFiles \subseteq {delivered}
  /\ pc \in {"main", "cb", "cbret", "walk", "count_ret", "exit"}
       => openFiles = {}

\* The callback of the next entry starts after a file whose countFile failed.
NextCallbackAfterFailedFile ==
  /\ pc = "cb"
  /\ hOpened # {}
  /\ errs # << >> /\ errs[Len(errs)].kind = "error counting file"

\* C10: the bytes a read returns together with end-of-stream or an error are
\* not counted: countFile returns with the totals of the error-free reads.
ErroredChunkNotCounted ==
  /\ pc = "cf_ret"
       => /\ FileBytes = Len(hFileClean)
          /\ FileOnes = PopCountSeq(hFileClean)
  /\ (pc = "cf_cond" /\ rerr # Nil)
       => /\ FileBytes = Len(hFileClean)
          /\ FileOnes = PopCountSeq(hFileClean)

\* countFile returned on an end-of-stream that came with 0xFF bytes.
DataWithEOFDropped ==
  /\ pc = "cf_ret" /\ rerr = EOF
  /\ hFileErrd > 0
  /\ \E i \in 1..bread : inbuf[i] = 255

====
